---- MODULE Spec2Model ----
(***************************************************************************)
(* Weather record service: the six request handlers of src/api/weather.py  *)
(* over the weather_current table of src/models/weather.py.                *)
(*                                                                         *)
(* Values are small integers: Null is the column value NULL / Python None, *)
(* Unset marks a request field the client did not send, 1..MaxVal are the  *)
(* values of the optional columns and 1..MaxTime the collection times.     *)
(* The optional columns are written by one loop that treats them alike     *)
(* (api/weather.py 138-139, 178-179); OptFields keeps two of them.         *)
(***************************************************************************)
EXTENDS Integers, Sequences, FiniteSets, TLC

\* ---------------------------------------------------------------- bounds
MaxId == 2
MaxTime == 2
MaxVal == 1
MaxClock == 1
MaxPage == 3
MaxLimit == 2

\* ------------------------------------------------------------ the schema
Null == 0
Unset == 0 - 1
LimitLe == 100

Ids == 1..MaxId
Times == 1..MaxTime
Vals == 1..MaxVal
Clock == 0..MaxClock

OptFields == {"temperature", "humidity"}
Fields == {"collection_time"} \cup OptFields

\* The columns the handlers read and write beside the declared ones: the
\* integer id the store assigns and the two audit timestamps.
StoreColumns == {"id", "create_date", "update_date"}
Columns == Fields \cup StoreColumns

\* A request body before validation: every field sent (a value or an explicit
\* null) or not sent.
Payloads ==
  { p \in [Fields -> {Unset, Null} \cup Times \cup Vals] :
      /\ p["collection_time"] \in {Unset, Null} \cup Times
      /\ \A f \in OptFields : p[f] \in {Unset, Null} \cup Vals }

\* WeatherCreate: collection_time is a required datetime, the rest are
\* Optional with default None.
WeatherCreate(p) == p["collection_time"] \notin {Unset, Null}

\* model_dump(exclude_unset=...): the keys dumped and their values.
DumpKeys(p, exclude_unset) ==
  IF exclude_unset THEN {f \in Fields : p[f] # Unset} ELSE Fields

model_dump(p, exclude_unset) ==
  [f \in DumpKeys(p, exclude_unset) |-> IF p[f] = Unset THEN Null ELSE p[f]]

\* A serialized row: every column by name.
serialize_sqlalchemy_obj(obj) == [c \in Columns |-> obj[c]]

\* -------------------------------------------------------------- the store
\* db.query(Weather).filter(Weather.id == id).first()
QueryById(st, id) == {r \in st : r["id"] = id}
First(rs) == CHOOSE r \in rs : TRUE

\* The key constraint left out of the table.
KeyTaken_unconstrained(st, ct) == FALSE

\* The primary key is collection_time: a row with the key of another row
\* violates the key constraint.
KeyTaken(st, ct) == \E r \in st : r["collection_time"] = ct

\* INSERT of a new row at commit: the store assigns the id.
Weather(data, newid, created, updated) ==
  [c \in Columns |->
     IF c = "id" THEN newid
     ELSE IF c = "create_date" THEN created
     ELSE IF c = "update_date" THEN updated
     ELSE IF c \in DOMAIN data THEN data[c] ELSE Null]

\* setattr(record, key, value) for every dumped key, then the update stamp.
SetAttrs(record, data, now) ==
  [c \in Columns |->
     IF c = "update_date" THEN now
     ELSE IF c \in DOMAIN data THEN data[c] ELSE record[c]]

\* The unit of work at commit: the UPDATE carries the columns whose value
\* differs from the loaded one and addresses the row by the primary key it
\* was loaded with.
Changed(loaded, pending) == {c \in Columns : pending[c] # loaded[c]}

Target(st, loaded) ==
  {r \in st : r["collection_time"] = loaded["collection_time"]}

Written(r, loaded, pending) ==
  [c \in Columns |-> IF c \in Changed(loaded, pending) THEN pending[c] ELSE r[c]]

FlushFails(st, loaded, pending) ==
  /\ Changed(loaded, pending) # {}
  /\ \/ Target(st, loaded) = {}
     \/ \E r \in Target(st, loaded) :
          KeyTaken(st \ {r}, Written(r, loaded, pending)["collection_time"])

Flush(st, loaded, pending) ==
  IF Changed(loaded, pending) = {} THEN st
  ELSE (st \ Target(st, loaded))
         \cup {Written(r, loaded, pending) : r \in Target(st, loaded)}

\* db.refresh(record): the row is read back by its primary key.
Refresh(st, pending) ==
  {r \in st : r["collection_time"] = pending["collection_time"]}

\* ----------------------------------------------------------- the handlers
Response(st, status, result, detail) ==
  [store |-> st, status |-> status, result |-> result, detail |-> detail]

\* ORDER BY collection_time DESC
RECURSIVE OrderByDesc(_)
OrderByDesc(rs) ==
  IF rs = {} THEN <<>>
  ELSE LET top == CHOOSE r \in rs :
                    \A q \in rs : q["collection_time"] <= r["collection_time"]
       IN <<top>> \o OrderByDesc(rs \ {top})

\* The slice taken from the first row whatever the page.
OffsetLimit_first_page(s, offset, limit) ==
  SubSeq(s, 1, IF limit < Len(s) THEN limit ELSE Len(s))

\* .offset(offset).limit(limit)
OffsetLimit(s, offset, limit) ==
  SubSeq(s, offset + 1, IF offset + limit < Len(s) THEN offset + limit ELSE Len(s))

MapSerialize(s) == [i \in 1..Len(s) |-> serialize_sqlalchemy_obj(s[i])]

\* A store call can raise (a lost connection, a timeout): fault names the
\* call of the handler that does, "none" when none does.
FaultPoints(op) ==
  IF op \in {"list", "get"} THEN {"none", "query"}
  ELSE IF op = "create" THEN {"none", "commit", "refresh"}
  ELSE IF op = "delete" THEN {"none", "query", "commit"}
  ELSE {"none", "query", "commit", "refresh"}

\* A page past the last row treated as a failure.
list_weather_strict(st, page, limit, fault) ==
  IF fault = "query" \/ (page - 1) * limit >= Cardinality(st)
    THEN Response(st, "InternalError", <<>>, 0)
  ELSE Response(st, "ok",
         MapSerialize(OffsetLimit(OrderByDesc(st), (page - 1) * limit, limit)), 0)

list_weather(st, page, limit, fault) ==
  IF fault = "query" THEN Response(st, "InternalError", <<>>, 0)
  ELSE Response(st, "ok",
         MapSerialize(OffsetLimit(OrderByDesc(st), (page - 1) * limit, limit)), 0)

\* The optional fields of the body dropped from the new row.
create_record_key_only(st, p, newid, created, updated, fault) ==
  LET data == [f \in {"collection_time"} |-> p[f]]
      new_record == Weather(data, newid, created, updated)
  IN IF fault = "commit" \/ KeyTaken(st, new_record["collection_time"])
       THEN Response(st, "InternalError", <<>>, 0)
     ELSE IF fault = "refresh"
       THEN Response(st \cup {new_record}, "InternalError", <<>>, 0)
     ELSE Response(st \cup {new_record}, "ok",
                   <<serialize_sqlalchemy_obj(new_record)>>, 0)

create_record(st, p, newid, created, updated, fault) ==
  LET data == model_dump(p, TRUE)
      new_record == Weather(data, newid, created, updated)
  IN IF fault = "commit" \/ KeyTaken(st, new_record["collection_time"])
       THEN Response(st, "InternalError", <<>>, 0)
     ELSE IF fault = "refresh"
       THEN Response(st \cup {new_record}, "InternalError", <<>>, 0)
     ELSE Response(st \cup {new_record}, "ok",
                   <<serialize_sqlalchemy_obj(new_record)>>, 0)

get_weather_by_id(st, id, fault) ==
  IF fault = "query" THEN Response(st, "InternalError", <<>>, 0)
  ELSE IF QueryById(st, id) = {} THEN Response(st, "NotFound", <<>>, id)
  ELSE Response(st, "ok", <<serialize_sqlalchemy_obj(First(QueryById(st, id)))>>, 0)

\* db.commit() and db.refresh(record) of the update handlers, for the row
\* `record` was loaded as and the attributes `pending` set on it.
CommitRefresh(st, record, pending, fault) ==
  IF fault = "commit" \/ FlushFails(st, record, pending)
    THEN Response(st, "InternalError", <<>>, 0)
  ELSE IF fault = "refresh" \/ Refresh(Flush(st, record, pending), pending) = {}
    THEN Response(Flush(st, record, pending), "InternalError", <<>>, 0)
  ELSE Response(Flush(st, record, pending), "ok",
         <<serialize_sqlalchemy_obj(
             First(Refresh(Flush(st, record, pending), pending)))>>, 0)

\* The full update dumping its body as the partial update does.
update_weather_full_merge(st, id, p, now, fault) ==
  IF fault = "query" THEN Response(st, "InternalError", <<>>, 0)
  ELSE IF QueryById(st, id) = {} THEN Response(st, "NotFound", <<>>, id)
  ELSE CommitRefresh(st, First(QueryById(st, id)),
         SetAttrs(First(QueryById(st, id)), model_dump(p, TRUE), now), fault)

update_weather_full(st, id, p, now, fault) ==
  IF fault = "query" THEN Response(st, "InternalError", <<>>, 0)
  ELSE IF QueryById(st, id) = {} THEN Response(st, "NotFound", <<>>, id)
  ELSE CommitRefresh(st, First(QueryById(st, id)),
         SetAttrs(First(QueryById(st, id)), model_dump(p, FALSE), now), fault)

\* The partial update without its check for a missing row: setattr on None
\* raises and the handler answers as for any exception.
update_weather_partial_unchecked(st, id, p, now, fault) ==
  IF fault = "query" \/ QueryById(st, id) = {}
    THEN Response(st, "InternalError", <<>>, 0)
  ELSE CommitRefresh(st, First(QueryById(st, id)),
         SetAttrs(First(QueryById(st, id)), model_dump(p, TRUE), now), fault)

update_weather_partial(st, id, p, now, fault) ==
  IF fault = "query" THEN Response(st, "InternalError", <<>>, 0)
  ELSE IF QueryById(st, id) = {} THEN Response(st, "NotFound", <<>>, id)
  ELSE CommitRefresh(st, First(QueryById(st, id)),
         SetAttrs(First(QueryById(st, id)), model_dump(p, TRUE), now), fault)

\* The delete that answers without removing the row.
delete_weather_soft(st, id, fault) ==
  IF fault = "query" THEN Response(st, "InternalError", <<>>, 0)
  ELSE IF QueryById(st, id) = {} THEN Response(st, "NotFound", <<>>, id)
  ELSE IF fault = "commit" THEN Response(st, "InternalError", <<>>, 0)
  ELSE Response(st, "ok", <<>>, id)

delete_weather(st, id, fault) ==
  IF fault = "query" THEN Response(st, "InternalError", <<>>, 0)
  ELSE IF QueryById(st, id) = {} THEN Response(st, "NotFound", <<>>, id)
  ELSE IF fault = "commit" THEN Response(st, "InternalError", <<>>, 0)
  ELSE Response(st \ Target(st, First(QueryById(st, id))), "ok", <<>>, id)

\* ------------------------------------------------------------- the state
\* store: the committed rows of weather_current; clock: the latest instant
\* datetime.now(UTC) has returned; pc, req, pre, fault, resp: the request in
\* flight, the store as the handler found it, whether the store raised
\* during the handler, and the response.
NoPayload == [f \in Fields |-> Unset]

\* sess, commits: the sessions of two update requests handled at the same
\* time, each with the row it loaded and the attributes it set, and the
\* workers in the order they committed.
VARIABLES store, clock, pc, req, pre, fault, resp, sess, commits

vars == <<store, clock, pc, req, pre, fault, resp, sess, commits>>

Workers == {1, 2}

NoRow == [c \in Columns |-> Null]

Session(at, op, id, p, record, pending, now, status) ==
  [at |-> at, op |-> op, id |-> id, p |-> p, record |-> record,
   pending |-> pending, now |-> now, status |-> status]

NoSession == Session("idle", "none", 0, NoPayload, NoRow, NoRow, 0, "none")

Request(op, id, p, page, limit) ==
  [op |-> op, id |-> id, p |-> p, page |-> page, limit |-> limit]

NoRequest == Request("none", 0, NoPayload, 0, 0)

Reply(r) == [status |-> r.status, result |-> r.result, detail |-> r.detail]

NoReply == [status |-> "none", result |-> <<>>, detail |-> 0]

Init ==
  /\ store = {}
  /\ clock = 0
  /\ pc = "idle"
  /\ req = NoRequest
  /\ pre = {}
  /\ fault = "none"
  /\ resp = NoReply
  /\ sess = [w \in Workers |-> NoSession]
  /\ commits = <<>>

\* Routing and Query(...)/Body(...) parsing: a request whose body WeatherCreate
\* accepts reaches its handler.
Receive(r) ==
  /\ pc = "idle"
  /\ r.op \in {"create", "put", "patch"} => WeatherCreate(r.p)
  /\ pc' = "pending"
  /\ req' = r
  /\ UNCHANGED <<store, clock, pre, fault, resp, sess, commits>>

\* A body WeatherCreate rejects is answered before any handler runs.
Reject(r) ==
  /\ pc = "idle"
  /\ r.op \in {"create", "put", "patch"}
  /\ ~WeatherCreate(r.p)
  /\ pc' = "done"
  /\ req' = r
  /\ pre' = store
  /\ fault' = "none"
  /\ resp' = [status |-> "ValidationError", result |-> <<>>, detail |-> 0]
  /\ UNCHANGED <<store, clock, sess, commits>>

Handled(r, raised) ==
  /\ pc' = "done"
  /\ pre' = store
  /\ fault' = raised
  /\ store' = r.store
  /\ resp' = Reply(r)
  /\ UNCHANGED <<req, sess, commits>>

\* GET /api/v1/weather
List(raised) ==
  /\ pc = "pending" /\ req.op = "list"
  /\ Handled(list_weather(store, req.page, req.limit, raised), raised)
  /\ UNCHANGED clock

\* POST /api/v1/weather
Create(newid, t1, t2, raised) ==
  /\ pc = "pending" /\ req.op = "create"
  /\ newid \notin {r["id"] : r \in store}
  /\ clock <= t1 /\ t1 <= t2
  /\ Handled(create_record(store, req.p, newid, t1, t2, raised), raised)
  /\ clock' = t2

\* GET /api/v1/weather/{id}
GetById(raised) ==
  /\ pc = "pending" /\ req.op = "get"
  /\ Handled(get_weather_by_id(store, req.id, raised), raised)
  /\ UNCHANGED clock

\* PUT /api/v1/weather/{id}
UpdateFull(now, raised) ==
  /\ pc = "pending" /\ req.op = "put"
  /\ clock <= now
  /\ Handled(update_weather_full(store, req.id, req.p, now, raised), raised)
  /\ clock' = now

\* PATCH /api/v1/weather/{id}
UpdatePartial(now, raised) ==
  /\ pc = "pending" /\ req.op = "patch"
  /\ clock <= now
  /\ Handled(update_weather_partial(store, req.id, req.p, now, raised), raised)
  /\ clock' = now

\* DELETE /api/v1/weather/{id}
Delete(raised) ==
  /\ pc = "pending" /\ req.op = "delete"
  /\ Handled(delete_weather(store, req.id, raised), raised)
  /\ UNCHANGED clock

\* The response is sent and the service is ready for the next request.
Respond ==
  /\ pc = "done"
  /\ pc' = "idle"
  /\ req' = NoRequest
  /\ pre' = {}
  /\ fault' = "none"
  /\ resp' = NoReply
  /\ UNCHANGED <<store, clock, sess, commits>>

Requests ==
  {Request("list", 0, NoPayload, page, limit) :
     page \in 1..MaxPage, limit \in (1..MaxLimit) \cup {LimitLe}}
  \cup {Request("create", 0, p, 0, 0) : p \in Payloads}
  \cup {Request(op, id, NoPayload, 0, 0) : op \in {"get", "delete"}, id \in Ids}
  \cup {Request(op, id, p, 0, 0) : op \in {"put", "patch"}, id \in Ids, p \in Payloads}

Next ==
  \/ \E r \in Requests : Receive(r)
  \/ \E r \in Requests : Reject(r)
  \/ \E raised \in FaultPoints("list") : List(raised)
  \/ \E newid \in Ids, t1 \in Clock, t2 \in Clock, raised \in FaultPoints("create") :
       Create(newid, t1, t2, raised)
  \/ \E raised \in FaultPoints("get") : GetById(raised)
  \/ \E now \in Clock, raised \in FaultPoints("put") : UpdateFull(now, raised)
  \/ \E now \in Clock, raised \in FaultPoints("patch") : UpdatePartial(now, raised)
  \/ \E raised \in FaultPoints("delete") : Delete(raised)
  \/ Respond

Spec == Init /\ [][Next]_vars

\* ------------------------------------------- two updates at the same time
\* Each request has its own session; the store runs each statement on the
\* committed rows (read committed) and the update handlers take no lock and
\* check no version.
InitRows ==
  {Weather([f \in Fields |->
              IF f = "collection_time" THEN id
              ELSE IF f = "temperature" THEN 1 ELSE Null], id, 0, 0) : id \in Ids}

InitStores == (SUBSET InitRows) \ {{}}

InitConc ==
  /\ store \in InitStores
  /\ clock = 0
  /\ pc = "idle"
  /\ req = NoRequest
  /\ pre = store
  /\ fault = "none"
  /\ resp = NoReply
  /\ sess = [w \in Workers |-> NoSession]
  /\ commits = <<>>

\* record = db.query(Weather).filter(Weather.id == id).first(), and the 404
BeginUpdate(w, op, id, p) ==
  /\ sess[w].at = "idle"
  /\ WeatherCreate(p)
  /\ sess' = [sess EXCEPT ![w] =
       IF QueryById(store, id) = {}
         THEN Session("done", op, id, p, NoRow, NoRow, 0, "NotFound")
         ELSE Session("loaded", op, id, p, First(QueryById(store, id)), NoRow, 0, "none")]
  /\ UNCHANGED <<store, clock, pc, req, pre, fault, resp, commits>>

\* the setattr loop and record.update_date = datetime.now(UTC)
SetFields(w, now) ==
  /\ sess[w].at = "loaded"
  /\ clock <= now
  /\ sess' = [sess EXCEPT ![w] =
       Session("dirty", sess[w].op, sess[w].id, sess[w].p, sess[w].record,
               SetAttrs(sess[w].record, model_dump(sess[w].p, sess[w].op = "patch"), now),
               now, "none")]
  /\ clock' = now
  /\ UNCHANGED <<store, pc, req, pre, fault, resp, commits>>

\* db.commit(), db.refresh(record) and the response
CommitUpdate(w) ==
  /\ sess[w].at = "dirty"
  /\ LET r == CommitRefresh(store, sess[w].record, sess[w].pending, "none")
     IN /\ store' = r.store
        /\ sess' = [sess EXCEPT ![w] =
             Session("done", sess[w].op, sess[w].id, sess[w].p, sess[w].record,
                     sess[w].pending, sess[w].now, r.status)]
  /\ pre' = store
  /\ commits' = Append(commits, w)
  /\ UNCHANGED <<clock, pc, req, fault, resp>>

NextConc ==
  \/ \E w \in Workers, op \in {"put", "patch"}, id \in Ids, p \in Payloads :
       BeginUpdate(w, op, id, p)
  \/ \E w \in Workers, now \in Clock : SetFields(w, now)
  \/ \E w \in Workers : CommitUpdate(w)

SpecConc == InitConc /\ [][NextConc]_vars

\* ---------------------------------------------------------------- claims
Done(op) == pc = "done" /\ req.op = op

RowOf(st, id) == First(QueryById(st, id))

\* The value a request field leaves in a row when every schema field is applied.
Sent(p, f) == IF p[f] = Unset THEN Null ELSE p[f]

Present(p) == {f \in Fields : p[f] # Unset}

\* The key of another row than `id` already has the value the request sets.
Collides(st, id, p) ==
  /\ p["collection_time"] \in Times
  /\ \E r \in st : r["id"] # id /\ r["collection_time"] = p["collection_time"]

Mutating == {"create", "put", "patch", "delete"}

\* C1: a PATCH on an existing id whose payload has exactly one field present
\* succeeds (unless the store fails it), sets exactly that field and
\* update_date of the row, and leaves every other field and row as it was.
C1_PartialUpdateOneField ==
  (/\ Done("patch")
   /\ QueryById(pre, req.id) # {}
   /\ Cardinality(Present(req.p)) = 1
   /\ resp.status # "InternalError")
  => /\ resp.status = "ok"
     /\ QueryById(store, req.id) # {}
     /\ \A c \in Columns :
          RowOf(store, req.id)[c] =
            IF c \in Present(req.p) THEN req.p[c]
            ELSE IF c = "update_date" THEN RowOf(store, req.id)[c]
            ELSE RowOf(pre, req.id)[c]
     /\ store \ {RowOf(store, req.id)} = pre \ {RowOf(pre, req.id)}

C3_CreateGetRoundTrip ==
  (Done("create") /\ resp.status = "ok")
  => /\ Len(resp.result) = 1
     /\ LET got == get_weather_by_id(store, resp.result[1]["id"], "none")
        IN /\ got.status = "ok"
           /\ Len(got.result) = 1
           /\ \A f \in Fields : got.result[1][f] = Sent(req.p, f)
           /\ got.result[1] = resp.result[1]

C3_Witness ==
  /\ Done("create") /\ resp.status = "ok"
  /\ pre # {}
  /\ \E f \in OptFields, g \in OptFields : req.p[f] = Unset /\ req.p[g] \in Vals

\* C4: a list that the store does not fail returns, at position k, the stored
\* row with exactly offset + k - 1 rows of later collection_time, for every k
\* up to the rows left after the offset and at most limit.
Offset == (req.page - 1) * req.limit

Later(st, row) ==
  {r \in st : r["collection_time"] > row["collection_time"]}

C4_ListPage ==
  (Done("list") /\ fault = "none")
  => /\ resp.status = "ok"
     /\ Len(resp.result) <= req.limit
     /\ Len(resp.result) =
          IF Cardinality(store) <= Offset THEN 0
          ELSE IF Cardinality(store) - Offset < req.limit
            THEN Cardinality(store) - Offset
          ELSE req.limit
     /\ \A k \in 1..Len(resp.result) :
          /\ resp.result[k] \in store
          /\ Cardinality(Later(store, resp.result[k])) = Offset + k - 1

C4_Witness ==
  /\ Done("list") /\ resp.status = "ok"
  /\ Offset > 0
  /\ Len(resp.result) > 0
  /\ Cardinality(store) > 1

\* C5: after a delete that succeeded the row is gone and get-by-id on its id
\* is NotFound; and an id with no row gets a row only by a create that
\* succeeded and returned that id.
C5_Gone ==
  (Done("delete") /\ resp.status = "ok")
  => /\ QueryById(pre, req.id) # {}
     /\ QueryById(store, req.id) = {}
     /\ get_weather_by_id(store, req.id, "none").status = "NotFound"

C5_StaysGone ==
  \A id \in Ids :
    (QueryById(store, id) = {} /\ QueryById(store', id) # {})
    => /\ req.op = "create"
       /\ resp'.status \in {"ok", "InternalError"}
       /\ (resp'.status = "ok" => resp'.result[1]["id"] = id)

C5_DeleteThenGet == [](C5_Gone) /\ [][C5_StaysGone]_vars

C5_Witness ==
  /\ Done("delete") /\ resp.status = "ok"
  /\ store # {}

\* C6: get-by-id, full-update, partial-update and delete that reach their
\* handler with an id of no stored row, and whose query the store does not
\* fail, end NotFound naming the id and leave the store as it was.
C6_NotFound ==
  (/\ pc = "done"
   /\ req.op \in {"get", "put", "patch", "delete"}
   /\ resp.status # "ValidationError"
   /\ fault # "query"
   /\ QueryById(pre, req.id) = {})
  => /\ resp.status = "NotFound"
     /\ resp.detail = req.id
     /\ store = pre

C6_Witness ==
  /\ Done("patch")
  /\ resp.status = "NotFound"
  /\ store # {}

\* C7: a create, full-update, partial-update or delete that ends in
\* InternalError leaves the store as it was before the operation.
C7_ErrorLeavesStore ==
  (pc = "done" /\ req.op \in Mutating /\ resp.status = "InternalError")
  => store = pre

\* C8: a list whose offset is at or beyond the number of stored rows, and
\* that the store does not fail, succeeds with an empty sequence.
C8_BeyondLastPage ==
  (Done("list") /\ fault = "none" /\ Offset >= Cardinality(store))
  => resp.status = "ok" /\ resp.result = <<>>

C8_Witness ==
  /\ Done("list") /\ fault = "none"
  /\ store # {}
  /\ Offset >= Cardinality(store)
  /\ resp.result = <<>>

\* C9: no two stored rows have the same collection_time; a create, or an
\* update of an existing row, that sets collection_time to the value of
\* another row ends in InternalError with the store as it was.
C9_UniqueCollectionTime ==
  /\ \A r \in store, q \in store :
       r["collection_time"] = q["collection_time"] => r = q
  /\ (/\ pc = "done"
      /\ req.op \in {"create", "put", "patch"}
      /\ resp.status # "ValidationError"
      /\ req.op = "create" \/ (fault # "query" /\ QueryById(pre, req.id) # {})
      /\ Collides(pre, IF req.op = "create" THEN 0 ELSE req.id, req.p))
     => resp.status = "InternalError" /\ store = pre

C9_Witness ==
  /\ Done("put")
  /\ fault = "none"
  /\ QueryById(pre, req.id) # {}
  /\ Collides(pre, req.id, req.p)
  /\ resp.status = "InternalError"

\* C10: two updates of the same existing id handled at the same time, neither
\* setting the key of another row, both succeed, and every row then has the
\* schema fields that the update that committed last leaves when run alone
\* on the store it committed to.
Alone(st, s) ==
  IF s.op = "put" THEN update_weather_full(st, s.id, s.p, s.now, "none")
  ELSE update_weather_partial(st, s.id, s.p, s.now, "none")

C10_LastCommittedWins ==
  (/\ \A w \in Workers :
        /\ sess[w].at = "done"
        /\ sess[w].status # "NotFound"
        /\ ~Collides(store, sess[w].id, sess[w].p)
   /\ \A w \in Workers, v \in Workers : sess[w].id = sess[v].id
   /\ Len(commits) = 2)
  => /\ \A w \in Workers : sess[w].status = "ok"
     /\ \A id \in Ids :
          /\ QueryById(store, id) = {} <=>
               QueryById(Alone(pre, sess[commits[2]]).store, id) = {}
          /\ QueryById(store, id) # {} =>
               \A f \in Fields :
                 RowOf(store, id)[f] =
                   RowOf(Alone(pre, sess[commits[2]]).store, id)[f]

====
